---- MODULE Spec2Model ----
(***************************************************************************)
(* Model of the Keystore of keystr-rs (src/src/keystore.rs): one keypair   *)
(* slot, the level of key material it holds, and the two text inputs.      *)
(* The nostr_sdk key library (Keys, from_pk_str, from_sk_str, to_bech32)   *)
(* is modelled over a small key space: a secret key is a scalar in         *)
(* 1..NumKeys, its public key is derived by pk_of, and a text is a string. *)
(***************************************************************************)
EXTENDS Integers, Sequences, FiniteSets, TLC

\* Number of distinct secret scalars (and public keys) of the key space.
NumKeys == 2

\* ------------------------------------------------------------------------
\* The key library used by the Keystore
\* ------------------------------------------------------------------------

\* The secret_key of a Keys value that was built from a public key only.
NoSecret == 0

SecretKey == 1..NumKeys
PublicKey == 1..NumKeys

\* Every number a key text may carry: 0 is neither a secret nor a public key.
KeyNumber == 0..NumKeys

\* KeysSetState
KeysSetState == {"NotSet", "PublicOnly", "SecretAndPublic"}

\* Result<T, E>
Ok(v) == [ok |-> TRUE, val |-> v]
Err(e) == [ok |-> FALSE, val |-> e]

\* The public key derived from a secret key (never the same number).
pk_of(sk) == (sk % NumKeys) + 1

\* Keys: a public key, and the secret key it was derived from when known.
Keys == [public_key : PublicKey, secret_key : SecretKey \cup {NoSecret}]

\* Keys::generate(): the pair of the secret scalar the generator drew.
Keys_generate(sk) == [public_key |-> pk_of(sk), secret_key |-> sk]

\* The text encodings of a key number: bech32 with the human-readable part
\* "npub" or "nsec", and hex (the same digits for both kinds of key).
npub_text(n) == "npub1" \o ToString(n)
nsec_text(n) == "nsec1" \o ToString(n)
hex_text(n) == "0000" \o ToString(n)

\* ToBech32 for a public key and for a secret key.
pk_to_bech32(pk) ==
    IF pk \in PublicKey THEN Ok(npub_text(pk)) ELSE Err("bech32 error")

sk_to_bech32(sk) ==
    IF sk \in SecretKey THEN Ok(nsec_text(sk)) ELSE Err("bech32 error")

\* Keys::public_key() and Keys::secret_key()
public_key(k) == k.public_key

secret_key(k) ==
    IF k.secret_key = NoSecret THEN Err("secret key missing") ELSE Ok(k.secret_key)

\* Keys::from_pk_str: hex first, then bech32 'npub'.
from_pk_str(text) ==
    IF \E n \in PublicKey : text = hex_text(n)
    THEN Ok([public_key |-> CHOOSE n \in PublicKey : text = hex_text(n),
             secret_key |-> NoSecret])
    ELSE IF \E n \in PublicKey : text = npub_text(n)
    THEN Ok([public_key |-> CHOOSE n \in PublicKey : text = npub_text(n),
             secret_key |-> NoSecret])
    ELSE Err("Invalid public key")

\* Keys::from_sk_str: hex first, then bech32 'nsec'; the public key is derived.
from_sk_str(text) ==
    IF \E n \in SecretKey : text = hex_text(n)
    THEN Ok(Keys_generate(CHOOSE n \in SecretKey : text = hex_text(n)))
    ELSE IF \E n \in SecretKey : text = nsec_text(n)
    THEN Ok(Keys_generate(CHOOSE n \in SecretKey : text = nsec_text(n)))
    ELSE Err("Invalid secret key")

\* The texts a caller may pass or type.
Texts ==
    {npub_text(n) : n \in KeyNumber} \cup {nsec_text(n) : n \in KeyNumber}
        \cup {hex_text(n) : n \in KeyNumber} \cup {"__NOT_A_VALID_KEY__", ""}

\* The texts the owner may leave in the two input fields.
InputTexts == {"", "__NOT_A_VALID_KEY__", nsec_text(1)}

\* ------------------------------------------------------------------------
\* The Keystore
\* ------------------------------------------------------------------------
VARIABLES set_level, keys, public_key_input, secret_key_input, call

vars == <<set_level, keys, public_key_input, secret_key_input, call>>

\* The Keystore value held in the variables.
Self ==
    [set_level |-> set_level, keys |-> keys,
     public_key_input |-> public_key_input,
     secret_key_input |-> secret_key_input]

\* One executed statement of a method and the Keystore after it.
Step(stmt, self) == [stmt |-> stmt, self |-> self]

\* What a method hands back: the Keystore after it, its return value, and
\* the statements it executed in order.
Outcome(self, ret, steps) == [self |-> self, ret |-> ret, steps |-> steps]

\* A new() that takes the generated keypair for a set one.
new_marks_set(fresh) ==
    [set_level |-> "SecretAndPublic", keys |-> Keys_generate(fresh),
     public_key_input |-> "", secret_key_input |-> ""]

\* Keystore::new
new(fresh) ==
    [set_level |-> "NotSet", keys |-> Keys_generate(fresh),
     public_key_input |-> "", secret_key_input |-> ""]

\* A clear() that also wipes the two input texts.
clear_wipes_inputs(self, fresh) ==
    LET s1 == [self EXCEPT !.keys = Keys_generate(fresh)]
        s2 == [s1 EXCEPT !.set_level = "NotSet"]
        s3 == [s2 EXCEPT !.public_key_input = "", !.secret_key_input = ""]
    IN  Outcome(s3, "unit",
                <<Step("keys = Keys::generate()", s1),
                  Step("set_level = NotSet", s2),
                  Step("inputs cleared", s3)>>)

\* A clear() that replaces the keypair but forgets to reset set_level.
clear_keeps_level(self, fresh) ==
    LET s1 == [self EXCEPT !.keys = Keys_generate(fresh)]
    IN  Outcome(s1, "unit", <<Step("keys = Keys::generate()", s1)>>)

\* Keystore::clear
clear(self, fresh) ==
    LET s1 == [self EXCEPT !.keys = Keys_generate(fresh)]
        s2 == [s1 EXCEPT !.set_level = "NotSet"]
    IN  Outcome(s2, "unit",
                <<Step("keys = Keys::generate()", s1),
                  Step("set_level = NotSet", s2)>>)

\* A generate() that forgets to draw the new keypair.
generate_no_draw(self, fresh) ==
    LET s2 == [self EXCEPT !.set_level = "SecretAndPublic"]
    IN  Outcome(s2, "unit", <<Step("set_level = SecretAndPublic", s2)>>)

\* Keystore::generate
generate(self, fresh) ==
    LET s1 == [self EXCEPT !.keys = Keys_generate(fresh)]
        s2 == [s1 EXCEPT !.set_level = "SecretAndPublic"]
    IN  Outcome(s2, "unit",
                <<Step("keys = Keys::generate()", s1),
                  Step("set_level = SecretAndPublic", s2)>>)

\* An import_public_key() that sets the level of a secret key import.
import_public_key_marks_secret(self, public_key_str, fresh) ==
    LET r == from_pk_str(public_key_str)
        c == clear(self, fresh)
        s1 == [c.self EXCEPT !.keys = r.val]
        s2 == [s1 EXCEPT !.set_level = "SecretAndPublic"]
    IN  IF ~r.ok
        THEN Outcome(c.self, Err(r.val),
                     <<Step("Keys::from_pk_str", self),
                       Step("clear()", c.self)>>)
        ELSE Outcome(s2, Ok("unit"),
                     <<Step("Keys::from_pk_str", self),
                       Step("clear()", c.self),
                       Step("keys = k", s1),
                       Step("set_level = SecretAndPublic", s2)>>)

\* An import_public_key() that drops the parsed key after clear().
import_public_key_not_stored(self, public_key_str, fresh) ==
    LET r == from_pk_str(public_key_str)
        c == clear(self, fresh)
        s2 == [c.self EXCEPT !.set_level = "PublicOnly"]
    IN  IF ~r.ok
        THEN Outcome(c.self, Err(r.val),
                     <<Step("Keys::from_pk_str", self),
                       Step("clear()", c.self)>>)
        ELSE Outcome(s2, Ok("unit"),
                     <<Step("Keys::from_pk_str", self),
                       Step("clear()", c.self),
                       Step("set_level = PublicOnly", s2)>>)

\* An import_public_key() that calls clear() before it parses the text.
import_public_key_clear_first(self, public_key_str, fresh) ==
    LET c == clear(self, fresh)
        r == from_pk_str(public_key_str)
        s1 == [c.self EXCEPT !.keys = r.val]
        s2 == [s1 EXCEPT !.set_level = "PublicOnly"]
    IN  IF ~r.ok
        THEN Outcome(c.self, Err(r.val),
                     <<Step("clear()", c.self),
                       Step("Keys::from_pk_str", c.self)>>)
        ELSE Outcome(s2, Ok("unit"),
                     <<Step("clear()", c.self),
                       Step("Keys::from_pk_str", c.self),
                       Step("keys = k", s1),
                       Step("set_level = PublicOnly", s2)>>)

\* Keystore::import_public_key
import_public_key(self, public_key_str, fresh) ==
    LET r == from_pk_str(public_key_str)
        c == clear(self, fresh)
        s1 == [c.self EXCEPT !.keys = r.val]
        s2 == [s1 EXCEPT !.set_level = "PublicOnly"]
    IN  IF ~r.ok
        THEN Outcome(c.self, Err(r.val),
                     <<Step("Keys::from_pk_str", self),
                       Step("clear()", c.self)>>)
        ELSE Outcome(s2, Ok("unit"),
                     <<Step("Keys::from_pk_str", self),
                       Step("clear()", c.self),
                       Step("keys = k", s1),
                       Step("set_level = PublicOnly", s2)>>)

\* An import_secret_key() that returns the error without calling clear().
import_secret_key_no_reset(self, secret_key_str, fresh) ==
    LET r == from_sk_str(secret_key_str)
        c == clear(self, fresh)
        s1 == [c.self EXCEPT !.keys = r.val]
        s2 == [s1 EXCEPT !.set_level = "SecretAndPublic"]
    IN  IF ~r.ok
        THEN Outcome(self, Err(r.val), <<Step("Keys::from_sk_str", self)>>)
        ELSE Outcome(s2, Ok("unit"),
                     <<Step("Keys::from_sk_str", self),
                       Step("clear()", c.self),
                       Step("keys = k", s1),
                       Step("set_level = SecretAndPublic", s2)>>)

\* An import_secret_key() that drops the parsed key after clear().
import_secret_key_not_stored(self, secret_key_str, fresh) ==
    LET r == from_sk_str(secret_key_str)
        c == clear(self, fresh)
        s2 == [c.self EXCEPT !.set_level = "SecretAndPublic"]
    IN  IF ~r.ok
        THEN Outcome(c.self, Err(r.val),
                     <<Step("Keys::from_sk_str", self),
                       Step("clear()", c.self)>>)
        ELSE Outcome(s2, Ok("unit"),
                     <<Step("Keys::from_sk_str", self),
                       Step("clear()", c.self),
                       Step("set_level = SecretAndPublic", s2)>>)

\* Keystore::import_secret_key
import_secret_key(self, secret_key_str, fresh) ==
    LET r == from_sk_str(secret_key_str)
        c == clear(self, fresh)
        s1 == [c.self EXCEPT !.keys = r.val]
        s2 == [s1 EXCEPT !.set_level = "SecretAndPublic"]
    IN  IF ~r.ok
        THEN Outcome(c.self, Err(r.val),
                     <<Step("Keys::from_sk_str", self),
                       Step("clear()", c.self)>>)
        ELSE Outcome(s2, Ok("unit"),
                     <<Step("Keys::from_sk_str", self),
                       Step("clear()", c.self),
                       Step("keys = k", s1),
                       Step("set_level = SecretAndPublic", s2)>>)

\* An is_public_key_set() that compares with the wrong level.
is_public_key_set_only_public(self) == self.set_level = "PublicOnly"

\* Keystore::is_public_key_set
is_public_key_set(self) == self.set_level # "NotSet"

\* Keystore::is_secret_key_set
is_secret_key_set(self) == self.set_level = "SecretAndPublic"

\* A get_keys() that is content with a public key.
get_keys_public_enough(self) ==
    IF ~is_public_key_set(self) THEN Err("(not set)") ELSE Ok(self.keys)

\* Keystore::get_keys
get_keys(self) ==
    IF ~is_secret_key_set(self) THEN Err("(not set)") ELSE Ok(self.keys)

\* A get_npub() that encodes whatever keys holds, without the set check.
get_npub_unguarded(self) ==
    LET r == pk_to_bech32(public_key(self.keys))
    IN  IF ~r.ok THEN "(conversion error)" ELSE r.val

\* A get_npub() that asks for the secret key flag, as get_nsec() does.
get_npub_needs_secret(self) ==
    IF ~is_secret_key_set(self)
    THEN "(not set)"
    ELSE LET r == pk_to_bech32(public_key(self.keys))
         IN  IF ~r.ok THEN "(conversion error)" ELSE r.val

\* Keystore::get_npub
get_npub(self) ==
    IF ~is_public_key_set(self)
    THEN "(not set)"
    ELSE LET r == pk_to_bech32(public_key(self.keys))
         IN  IF ~r.ok THEN "(conversion error)" ELSE r.val

\* A get_nsec() that encodes the public key, as get_npub() does.
get_nsec_of_public(self) ==
    IF ~is_secret_key_set(self)
    THEN "(not set)"
    ELSE LET r == pk_to_bech32(public_key(self.keys))
         IN  IF ~r.ok THEN "(conversion error)" ELSE r.val

\* Keystore::get_nsec
get_nsec(self) ==
    IF ~is_secret_key_set(self)
    THEN "(not set)"
    ELSE LET key == secret_key(self.keys)
         IN  IF ~key.ok
             THEN "(no secret key)"
             ELSE LET r == sk_to_bech32(key.val)
                  IN  IF ~r.ok THEN "(conversion error)" ELSE r.val

\* ------------------------------------------------------------------------
\* The calls a caller makes
\* ------------------------------------------------------------------------

\* The record of the last call: the method, its argument, the secret scalars
\* Keys::generate() drew for it, the Keystore before it, its return value and
\* the statements it executed.
Called(op, arg, drawn, pre, ret, steps) ==
    [op |-> op, arg |-> arg, drawn |-> drawn, pre |-> pre, ret |-> ret,
     steps |-> steps]

\* Store the Keystore a method left behind.
Becomes(self) ==
    /\ set_level' = self.set_level
    /\ keys' = self.keys
    /\ public_key_input' = self.public_key_input
    /\ secret_key_input' = self.secret_key_input

Init ==
    \E fresh \in SecretKey :
        /\ set_level = new(fresh).set_level
        /\ keys = new(fresh).keys
        /\ public_key_input = new(fresh).public_key_input
        /\ secret_key_input = new(fresh).secret_key_input
        /\ call = Called("new", "", <<fresh>>, new(fresh), Ok("unit"), <<>>)

\* let k = Keystore::new(), replacing the Keystore held so far
CallNew ==
    \E fresh \in SecretKey :
        /\ Becomes(new(fresh))
        /\ call' = Called("new", "", <<fresh>>, Self, Ok("unit"), <<>>)

CallClear ==
    \E fresh \in SecretKey :
        LET o == clear(Self, fresh)
        IN  /\ Becomes(o.self)
            /\ call' = Called("clear", "", <<fresh>>, Self, Ok(o.ret), o.steps)

CallGenerate ==
    \E fresh \in SecretKey :
        LET o == generate(Self, fresh)
        IN  /\ Becomes(o.self)
            /\ call' = Called("generate", "", <<fresh>>, Self, Ok(o.ret), o.steps)

CallImportPublicKey ==
    \E text \in Texts, fresh \in SecretKey :
        LET o == import_public_key(Self, text, fresh)
        IN  /\ Becomes(o.self)
            /\ call' = Called("import_public_key", text, <<fresh>>, Self,
                              o.ret, o.steps)

CallImportSecretKey ==
    \E text \in Texts, fresh \in SecretKey :
        LET o == import_secret_key(Self, text, fresh)
        IN  /\ Becomes(o.self)
            /\ call' = Called("import_secret_key", text, <<fresh>>, Self,
                              o.ret, o.steps)

CallIsPublicKeySet ==
    /\ call' = Called("is_public_key_set", "", <<>>, Self,
                      Ok(is_public_key_set(Self)), <<>>)
    /\ UNCHANGED <<set_level, keys, public_key_input, secret_key_input>>

CallIsSecretKeySet ==
    /\ call' = Called("is_secret_key_set", "", <<>>, Self,
                      Ok(is_secret_key_set(Self)), <<>>)
    /\ UNCHANGED <<set_level, keys, public_key_input, secret_key_input>>

\* A get_keys() that moves the keypair out and leaves the store cleared.
CallGetKeys_takes ==
    /\ call' = Called("get_keys", "", <<>>, Self, get_keys(Self), <<>>)
    /\ set_level' = "NotSet"
    /\ UNCHANGED <<keys, public_key_input, secret_key_input>>

CallGetKeys ==
    /\ call' = Called("get_keys", "", <<>>, Self, get_keys(Self), <<>>)
    /\ UNCHANGED <<set_level, keys, public_key_input, secret_key_input>>

\* A get_npub() that reports a missing key as an error, as get_keys() does.
CallGetNpub_fails ==
    /\ call' = Called("get_npub", "", <<>>, Self,
                      IF ~is_public_key_set(Self)
                      THEN Err("(not set)") ELSE Ok(get_npub(Self)), <<>>)
    /\ UNCHANGED <<set_level, keys, public_key_input, secret_key_input>>

CallGetNpub ==
    /\ call' = Called("get_npub", "", <<>>, Self, Ok(get_npub(Self)), <<>>)
    /\ UNCHANGED <<set_level, keys, public_key_input, secret_key_input>>

CallGetNsec ==
    /\ call' = Called("get_nsec", "", <<>>, Self, Ok(get_nsec(Self)), <<>>)
    /\ UNCHANGED <<set_level, keys, public_key_input, secret_key_input>>

\* The owner of the Keystore writes its public field public_key_input.
WritePublicKeyInput ==
    \E text \in InputTexts :
        /\ public_key_input' = text
        /\ call' = Called("public_key_input =", text, <<>>, Self, Ok("unit"), <<>>)
        /\ UNCHANGED <<set_level, keys, secret_key_input>>

\* The owner of the Keystore writes its public field secret_key_input.
WriteSecretKeyInput ==
    \E text \in InputTexts :
        /\ secret_key_input' = text
        /\ call' = Called("secret_key_input =", text, <<>>, Self, Ok("unit"), <<>>)
        /\ UNCHANGED <<set_level, keys, public_key_input>>

Next ==
    \/ CallNew
    \/ CallClear
    \/ CallGenerate
    \/ CallImportPublicKey
    \/ CallImportSecretKey
    \/ CallIsPublicKeySet
    \/ CallIsSecretKeySet
    \/ CallGetKeys
    \/ CallGetNpub
    \/ CallGetNsec
    \/ WritePublicKeyInput
    \/ WriteSecretKeyInput

Spec == Init /\ [][Next]_vars

\* ------------------------------------------------------------------------
\* Properties
\* ------------------------------------------------------------------------

ImportOps == {"import_public_key", "import_secret_key"}

DisplayOps == {"is_public_key_set", "is_secret_key_set", "get_npub", "get_nsec"}

AccessorOps == DisplayOps \cup {"get_keys"}

\* Whether the library parses the text given to the import method op.
Parses(op, text) ==
    IF op = "import_public_key" THEN from_pk_str(text).ok ELSE from_sk_str(text).ok

\* C1: an import (public or secret) of a text that does not parse returns an
\* error and leaves the store in NotSet, whatever it held before: both flags
\* are false and keys is the placeholder the call drew, not the prior keypair.
C1_FailedImportResets ==
    (call.op \in ImportOps /\ ~Parses(call.op, call.arg))
        => /\ ~call.ret.ok
           /\ set_level = "NotSet"
           /\ ~is_public_key_set(Self)
           /\ ~is_secret_key_set(Self)
           /\ keys = Keys_generate(call.drawn[1])

\* A failed secret key import on a store that held a full keypair, which is
\* gone afterwards.
C1_Witness ==
    /\ call.op = "import_secret_key"
    /\ call.arg = "__NOT_A_VALID_KEY__"
    /\ call.pre.set_level = "SecretAndPublic"
    /\ ~call.ret.ok
    /\ keys # call.pre.keys

\* C2: get_keys() returns the held keypair exactly when set_level is
\* SecretAndPublic; in NotSet and PublicOnly it fails with "(not set)".
C2_GetKeysOnlyWithSecret ==
    call.op = "get_keys"
        => /\ call.ret.ok <=> (call.pre.set_level = "SecretAndPublic")
           /\ call.ret.ok => call.ret.val = call.pre.keys
           /\ ~call.ret.ok => call.ret.val = "(not set)"

\* get_keys() called on a store that holds an imported public key only.
C2_Witness ==
    /\ call.op = "get_keys"
    /\ call.pre.set_level = "PublicOnly"
    /\ ~call.ret.ok

\* C3: import_public_key of a valid public key text succeeds from any state
\* and leaves the store in PublicOnly: the public flag is true, the secret
\* flag false, get_npub() is the npub encoding of the key in the text,
\* get_nsec() is "(not set)", get_keys() fails and no secret key is held.
C3_ImportPublicKey ==
    (call.op = "import_public_key" /\ from_pk_str(call.arg).ok)
        => /\ call.ret.ok
           /\ set_level = "PublicOnly"
           /\ is_public_key_set(Self)
           /\ ~is_secret_key_set(Self)
           /\ Ok(get_npub(Self))
                  = pk_to_bech32(public_key(from_pk_str(call.arg).val))
           /\ \A n \in PublicKey :
                  call.arg \in {npub_text(n), hex_text(n)}
                      => get_npub(Self) = npub_text(n)
           /\ get_nsec(Self) = "(not set)"
           /\ ~get_keys(Self).ok
           /\ ~secret_key(keys).ok

\* A public key imported over a full keypair of another key.
C3_Witness ==
    /\ call.op = "import_public_key"
    /\ call.arg = npub_text(1)
    /\ call.ret.ok
    /\ call.pre.set_level = "SecretAndPublic"
    /\ call.pre.keys.public_key # 1

\* C4 as claimed: after import_secret_key of any valid secret key text S the
\* store is in SecretAndPublic, get_nsec() is S itself and get_npub() is the
\* encoding of the public key derived from S.
C4_Original ==
    (call.op = "import_secret_key" /\ from_sk_str(call.arg).ok)
        => /\ call.ret.ok
           /\ set_level = "SecretAndPublic"
           /\ get_nsec(Self) = call.arg
           /\ Ok(get_npub(Self))
                  = pk_to_bech32(public_key(from_sk_str(call.arg).val))

\* C4: import_secret_key of a valid secret key text S succeeds from any state
\* and leaves the store in SecretAndPublic; get_nsec() is the nsec encoding of
\* the secret key S denotes, which is S itself when S is an nsec text (and not
\* when S is hex), and get_npub() is the npub encoding of the public key
\* derived from that secret key, whatever was held before.
C4_ImportSecretKey ==
    (call.op = "import_secret_key" /\ from_sk_str(call.arg).ok)
        => /\ call.ret.ok
           /\ set_level = "SecretAndPublic"
           /\ \A n \in SecretKey :
                  call.arg \in {nsec_text(n), hex_text(n)}
                      => /\ get_nsec(Self) = nsec_text(n)
                         /\ get_npub(Self) = npub_text(pk_of(n))
           /\ (\E n \in SecretKey : call.arg = nsec_text(n))
                  => get_nsec(Self) = call.arg
           /\ (\E n \in SecretKey : call.arg = hex_text(n))
                  => get_nsec(Self) # call.arg

\* A secret key imported as an nsec text over a public-only store.
C4_Witness ==
    /\ call.op = "import_secret_key"
    /\ call.arg = nsec_text(1)
    /\ call.ret.ok
    /\ call.pre.set_level = "PublicOnly"
    /\ get_nsec(Self) = nsec_text(1)

\* C5: generate() leaves the store in SecretAndPublic with the keypair it
\* drew in place of what was held: both flags are true and get_keys()
\* succeeds with that keypair.
C5_Generate ==
    call.op = "generate"
        => /\ set_level = "SecretAndPublic"
           /\ keys = Keys_generate(call.drawn[1])
           /\ is_public_key_set(Self)
           /\ is_secret_key_set(Self)
           /\ get_keys(Self) = Ok(Keys_generate(call.drawn[1]))

\* generate() on a public-only store, replacing the key it held.
C5_Witness ==
    /\ call.op = "generate"
    /\ call.pre.set_level = "PublicOnly"
    /\ keys.public_key # call.pre.keys.public_key

\* C6: whenever get_keys() succeeds, the bech32 encoding of the public key of
\* the keypair it returns is get_npub(), and the keypair has a secret key
\* whose bech32 encoding is get_nsec().
C6_AccessorsAgree ==
    get_keys(Self).ok
        => LET k == get_keys(Self).val
           IN  /\ pk_to_bech32(public_key(k)) = Ok(get_npub(Self))
               /\ secret_key(k).ok
               /\ sk_to_bech32(secret_key(k).val) = Ok(get_nsec(Self))

\* A store on which get_keys() succeeds after a secret key import.
C6_Witness ==
    /\ call.op = "import_secret_key"
    /\ call.ret.ok
    /\ get_keys(Self).ok
    /\ get_nsec(Self) = nsec_text(keys.secret_key)

\* C7: a store produced by new() is in NotSet: both flags are false,
\* get_npub() and get_nsec() are "(not set)" and get_keys() fails, while keys
\* holds a generated placeholder keypair.
C7_NewIsNotSet ==
    call.op = "new"
        => /\ set_level = "NotSet"
           /\ is_public_key_set(Self) = FALSE
           /\ is_secret_key_set(Self) = FALSE
           /\ get_npub(Self) = "(not set)"
           /\ get_nsec(Self) = "(not set)"
           /\ ~get_keys(Self).ok
           /\ keys = Keys_generate(call.drawn[1])
           /\ secret_key(keys).ok

\* A store made by new() in place of one that held a full keypair.
C7_Witness ==
    /\ call.op = "new"
    /\ call.pre.set_level = "SecretAndPublic"
    /\ keys \in Keys

\* C8 as claimed: no accessor, get_keys included, ever returns an error.
C8_Original ==
    call.op \in AccessorOps => call.ret.ok

\* C8: is_public_key_set, is_secret_key_set, get_npub and get_nsec never
\* fail: they return a plain value, and get_npub and get_nsec report a
\* missing key by the text "(not set)". get_keys is the exception: it returns
\* the error "(not set)" whenever set_level is not SecretAndPublic.
C8_DisplayAccessorsNeverFail ==
    /\ call.op \in DisplayOps => call.ret.ok
    /\ (call.op = "get_npub" /\ call.pre.set_level = "NotSet")
           => call.ret = Ok("(not set)")
    /\ (call.op = "get_nsec" /\ call.pre.set_level # "SecretAndPublic")
           => call.ret = Ok("(not set)")
    /\ (call.op = "get_keys" /\ call.pre.set_level # "SecretAndPublic")
           => call.ret = Err("(not set)")

\* get_npub() called on a store in NotSet, answering with the sentinel.
C8_Witness ==
    /\ call.op = "get_npub"
    /\ call.pre.set_level = "NotSet"
    /\ call.ret = Ok("(not set)")

MutatingOps == {"generate", "import_public_key", "import_secret_key"}

\* C9 as claimed: the first statement of generate(), import_public_key() and
\* import_secret_key() is clear(), leaving the store in NotSet before
\* anything else happens.
C9_Original ==
    call.op \in MutatingOps
        => /\ Len(call.steps) >= 1
           /\ call.steps[1].stmt = "clear()"
           /\ call.steps[1].self.set_level = "NotSet"

\* C9: import_public_key() and import_secret_key() parse the text first, on
\* the untouched store, and then call clear() (NotSet, fresh placeholder)
\* before any parsed key is stored; after a failed parse clear() is the last
\* statement. generate() does not call clear(): it assigns the new keypair
\* while set_level is still the prior level and then sets SecretAndPublic.
C9_ClearAfterParse ==
    /\ call.op \in ImportOps
           => /\ Len(call.steps) >= 2
              /\ call.steps[1].stmt \in {"Keys::from_pk_str", "Keys::from_sk_str"}
              /\ call.steps[1].self = call.pre
              /\ call.steps[2].stmt = "clear()"
              /\ call.steps[2].self.set_level = "NotSet"
              /\ call.steps[2].self.keys = Keys_generate(call.drawn[1])
              /\ \A i \in 3..Len(call.steps) :
                     call.steps[i].stmt \in
                         {"keys = k", "set_level = PublicOnly",
                          "set_level = SecretAndPublic"}
              /\ ~call.ret.ok => Len(call.steps) = 2
              /\ call.ret.ok => Len(call.steps) = 4
    /\ call.op = "generate"
           => /\ \A i \in 1..Len(call.steps) : call.steps[i].stmt # "clear()"
              /\ Len(call.steps) = 2
              /\ call.steps[1].self.set_level = call.pre.set_level
              /\ call.steps[1].self.keys = Keys_generate(call.drawn[1])
              /\ call.steps[2].self.set_level = "SecretAndPublic"

\* A successful public key import over a full keypair: the parse ran on the
\* store that still held it, clear() came second.
C9_Witness ==
    /\ call.op = "import_public_key"
    /\ call.ret.ok
    /\ call.pre.set_level = "SecretAndPublic"
    /\ call.steps[1].self.set_level = "SecretAndPublic"
    /\ call.steps[2].stmt = "clear()"

\* C10: a call of is_public_key_set, is_secret_key_set, get_keys, get_npub or
\* get_nsec leaves set_level, keys, public_key_input and secret_key_input
\* unchanged, and so the answers of all accessors afterwards are those they
\* would have given before.
C10_AccessorsNoSideEffect ==
    [][call'.op \in AccessorOps
           => /\ UNCHANGED <<set_level, keys, public_key_input, secret_key_input>>
              /\ call'.pre = Self
              /\ get_keys(Self)' = get_keys(Self)
              /\ get_npub(Self)' = get_npub(Self)
              /\ get_nsec(Self)' = get_nsec(Self)
              /\ is_public_key_set(Self)' = is_public_key_set(Self)
              /\ is_secret_key_set(Self)' = is_secret_key_set(Self)]_vars

\* get_keys() has answered on a full keypair, which the store still holds.
C10_Witness ==
    /\ call.op = "get_keys"
    /\ call.ret.ok
    /\ call.pre = Self
    /\ set_level = "SecretAndPublic"
    /\ public_key_input # ""

\* What a caller can observe of a Keystore through its accessors.
Observed(self) ==
    [is_public_key_set |-> is_public_key_set(self),
     is_secret_key_set |-> is_secret_key_set(self),
     get_keys |-> get_keys(self),
     get_npub |-> get_npub(self),
     get_nsec |-> get_nsec(self)]

\* What the accessors answer on a store that holds nothing.
ObservedNotSet ==
    [is_public_key_set |-> FALSE,
     is_secret_key_set |-> FALSE,
     get_keys |-> Err("(not set)"),
     get_npub |-> "(not set)",
     get_nsec |-> "(not set)"]

\* C11: clear() leaves the store in NotSet with every accessor answering as
\* for an empty store, and a clear() that follows a clear() leaves set_level
\* and every accessor's answer as the first one left them.
C11_ClearIdempotent ==
    [][call'.op = "clear"
           => /\ set_level' = "NotSet"
              /\ Observed(Self)' = ObservedNotSet
              /\ call.op = "clear"
                     => /\ set_level' = set_level
                        /\ Observed(Self)' = Observed(Self)
                        /\ UNCHANGED <<public_key_input, secret_key_input>>]_vars

\* A clear() on a store that was already cleared, drawing another placeholder.
C11_Witness ==
    /\ call.op = "clear"
    /\ call.pre.set_level = "NotSet"
    /\ call.pre.keys # keys
    /\ Observed(call.pre) = Observed(Self)

\* C12: get_npub() answers "(not set)" exactly when set_level is NotSet and
\* otherwise the npub encoding of the held public key; get_nsec() answers
\* "(not set)" exactly when set_level is not SecretAndPublic (PublicOnly
\* included) and otherwise the nsec encoding of the held secret key.
C12_SentinelMapping ==
    /\ (get_npub(Self) = "(not set)") <=> (set_level = "NotSet")
    /\ set_level # "NotSet" => Ok(get_npub(Self)) = pk_to_bech32(keys.public_key)
    /\ (get_nsec(Self) = "(not set)") <=> (set_level # "SecretAndPublic")
    /\ set_level = "SecretAndPublic"
           => Ok(get_nsec(Self)) = sk_to_bech32(keys.secret_key)
    /\ call.op = "get_npub" => call.ret = Ok(get_npub(call.pre))
    /\ call.op = "get_nsec" => call.ret = Ok(get_nsec(call.pre))

\* get_npub() has answered with the encoding of an imported public key, on a
\* store where get_nsec() is "(not set)".
C12_Witness ==
    /\ call.op = "get_npub"
    /\ call.pre.set_level = "PublicOnly"
    /\ call.ret = Ok(npub_text(keys.public_key))
    /\ get_nsec(Self) = "(not set)"

\* C13: set_level matches keys in every reachable state: in SecretAndPublic
\* keys holds a secret key and the public key derived from it, in PublicOnly
\* keys holds no secret key; so get_nsec() is never "(no secret key)".
C13_LevelMatchesKeys ==
    /\ set_level \in KeysSetState
    /\ keys \in Keys
    /\ set_level = "SecretAndPublic"
           => /\ secret_key(keys).ok
              /\ keys.secret_key \in SecretKey
              /\ keys.public_key = pk_of(keys.secret_key)
    /\ set_level = "PublicOnly" => ~secret_key(keys).ok
    /\ get_nsec(Self) # "(no secret key)"
    /\ call.op = "get_nsec" => call.ret # Ok("(no secret key)")

\* A public-only store made by an import over a full keypair.
C13_Witness ==
    /\ set_level = "PublicOnly"
    /\ call.op = "import_public_key"
    /\ call.pre.set_level = "SecretAndPublic"
    /\ keys.secret_key = NoSecret

\* C14: is_public_key_set() is true exactly when set_level is not NotSet and
\* is_secret_key_set() is true exactly when set_level is SecretAndPublic,
\* whatever keys and the inputs hold; so the secret flag implies the public
\* flag in every reachable state.
C14_FlagsFollowLevel ==
    /\ is_public_key_set(Self) <=> (set_level # "NotSet")
    /\ is_secret_key_set(Self) <=> (set_level = "SecretAndPublic")
    /\ is_secret_key_set(Self) => is_public_key_set(Self)
    /\ call.op = "is_public_key_set"
           => call.ret = Ok(call.pre.set_level # "NotSet")
    /\ call.op = "is_secret_key_set"
           => call.ret = Ok(call.pre.set_level = "SecretAndPublic")

\* is_public_key_set() has answered true on a full keypair, where the secret
\* flag is true as well.
C14_Witness ==
    /\ call.op = "is_public_key_set"
    /\ call.pre.set_level = "SecretAndPublic"
    /\ call.ret = Ok(TRUE)
    /\ is_secret_key_set(Self)

\* C15: in NotSet no accessor's answer depends on the placeholder: the store
\* answers as the same store holding any other placeholder keypair would,
\* namely as an empty store.
C15_PlaceholderHidden ==
    set_level = "NotSet"
        => /\ \A sk \in SecretKey :
                  Observed([Self EXCEPT !.keys = Keys_generate(sk)])
                      = Observed(Self)
           /\ Observed(Self) = ObservedNotSet
           /\ call.op \in {"get_npub", "get_nsec"} => call.ret = Ok("(not set)")
           /\ call.op = "get_keys" => call.ret = Err("(not set)")

\* Two stores in NotSet with different placeholders, one after a failed
\* import on the other, answering alike.
C15_Witness ==
    /\ set_level = "NotSet"
    /\ call.op \in ImportOps
    /\ ~call.ret.ok
    /\ call.pre.set_level = "NotSet"
    /\ call.pre.keys # keys
    /\ Observed(call.pre) = Observed(Self)

KeystoreOps == {"clear", "generate", "import_public_key", "import_secret_key"}

\* C16: new() sets both input fields to the empty text, and clear(),
\* generate(), import_public_key() and import_secret_key(), failed or not,
\* leave both input fields as they were.
C16_InputsUntouched ==
    [][/\ call'.op = "new"
              => public_key_input' = "" /\ secret_key_input' = ""
       /\ call'.op \in KeystoreOps
              => UNCHANGED <<public_key_input, secret_key_input>>]_vars

\* A failed secret key import that left a secret key text in
\* secret_key_input.
C16_Witness ==
    /\ call.op = "import_secret_key"
    /\ ~call.ret.ok
    /\ secret_key_input = nsec_text(1)
    /\ call.pre.secret_key_input = nsec_text(1)
    /\ call.pre.set_level = "SecretAndPublic"
====
